---- MODULE Spec2Model ----
(***************************************************************************)
(* The URL shortener of backend/main.py: the redirect handler with its     *)
(* cache-aside lookup (cache.py, Redis) over the urls/clicks tables        *)
(* (models.py), and the creation handler with its check-then-insert code   *)
(* allocation.  Each request runs in its own worker with its own database  *)
(* session; a worker's steps are the handler's accesses to the shared      *)
(* cache and store, in program order.                                      *)
(*                                                                         *)
(* Strings that the code inspects character by character (short codes and  *)
(* slugs) are sequences of code points.  An Optional value is <<>> (None)  *)
(* or <<v>>.  The clock counts half hours.  Redis may be unreachable at    *)
(* any call, and the store may fail at any commit.                         *)
(***************************************************************************)
EXTENDS Integers, Sequences, FiniteSets, TLC

\* ------------------------------------------------------------- bounds
NumWorkers == 2        \* requests in flight at the same time
MaxReq == 3            \* requests started in one behaviour
MaxTime == 3           \* ticks the clock advances

\* ---------------------------------------------------------- constants
CACHE_TTL == 2         \* cache.py CACHE_TTL: 3600 seconds, in ticks of 1800 s
HOUR == 2              \* timedelta(hours=1), in ticks of 1800 s
max_attempts == 10     \* main.py shorten_url

None == <<>>
Some(v) == <<v>>

Workers == 1..NumWorkers

\* --------------------------------------------------- strings as code points
s_api == <<97, 112, 105>>                    \* "api"
s_Api == <<65, 112, 105>>                    \* "Api"
s_ab1 == <<97, 98, 49>>                      \* "ab1"
s_ab == <<97, 98>>                           \* "ab"
s_a_b == <<97, 45, 98>>                      \* "a-b"
s_long == <<97, 98, 99, 100, 101, 102, 103, 104, 105, 106, 107>>  \* 11 chars
s_gen1 == <<97, 66, 51, 120, 89, 57>>        \* "aB3xY9"
s_gen2 == <<107, 52, 115, 67, 48, 49>>       \* "k4sC01"
s_zzz == <<122, 122, 122, 48, 48, 48>>       \* "zzz000"
s_health == <<104, 101, 97, 108, 116, 104>>  \* "health"
s_docs == <<100, 111, 99, 115>>              \* "docs"
s_redoc == <<114, 101, 100, 111, 99>>        \* "redoc"
s_openapi == <<111, 112, 101, 110, 97, 112, 105, 46, 106, 115, 111, 110>>
s_shorten == <<115, 104, 111, 114, 116, 101, 110>>
s_stats == <<115, 116, 97, 116, 115>>
s_cache == <<99, 97, 99, 104, 101>>

\* RESERVED_WORDS with the list empty
RESERVED_WORDS_Empty == {}

\* main.py redirect_url: RESERVED_WORDS
RESERVED_WORDS ==
  {s_api, s_health, s_docs, s_redoc, s_openapi, s_shorten, s_stats, s_cache}

IsDigit(c) == c >= 48 /\ c <= 57
IsUpper(c) == c >= 65 /\ c <= 90
IsLower(c) == c >= 97 /\ c <= 122

\* str.isalnum(): non-empty and every character a letter or a digit
isalnum(s) ==
  /\ Len(s) > 0
  /\ \A i \in 1..Len(s) : IsDigit(s[i]) \/ IsUpper(s[i]) \/ IsLower(s[i])

\* str.lower()
lower(s) == [i \in 1..Len(s) |-> IF IsUpper(s[i]) THEN s[i] + 32 ELSE s[i]]

\* validate_slug returning the slug as sent (no lower())
validate_slug_NoLower(slug) ==
  IF slug = None THEN Some(None)
  ELSE IF Len(slug[1]) < 3 THEN None
  ELSE IF Len(slug[1]) > 10 THEN None
  ELSE IF ~isalnum(slug[1]) THEN None
  ELSE Some(Some(slug[1]))

\* schemas.py URLCreate.validate_slug: None when the validator raises
\* ValueError (HTTP 422), otherwise the value the handler sees.
validate_slug(slug) ==
  IF slug = None THEN Some(None)
  ELSE IF Len(slug[1]) < 3 THEN None
  ELSE IF Len(slug[1]) > 10 THEN None
  ELSE IF ~isalnum(slug[1]) THEN None
  ELSE Some(Some(lower(slug[1])))

\* helpers.py generate_short_code: the codes random.choice may draw
\* (6 characters of letters and digits).
GenCodes == {s_gen1, s_gen2}

\* Codes a redirect may ask for.
PathCodes == {s_api, s_ab1, s_gen1, s_gen2, s_zzz}

\* The path segments of the service's own routes, asked for as codes.
ReservedPaths ==
  {s_api, s_health, s_docs, s_redoc, s_openapi, s_shorten, s_stats, s_cache}

\* The keys Redis and the redirects_total counter may hold ("url:<code>").
Keys == PathCodes \cup ReservedPaths

\* --------------------------------------------------------------- URLs
\* A URL as the request carries it: scheme, host and path.
u_example == [scheme |-> "https", host |-> "example.com", path |-> ""]
u_github == [scheme |-> "https", host |-> "github.com", path |-> "/"]
u_invalid == [scheme |-> "", host |-> "not-a-valid-url", path |-> ""]

\* schemas.py URLCreate.original_url: HttpUrl accepts http and https only
ValidHttpUrl(u) == u.scheme \in {"http", "https"}

\* main.py shorten_url step 1: str(data.original_url); the parsed URL prints
\* with "/" for an empty path (test_api.py expects "https://example.com/").
UrlStr(u) == [u EXCEPT !.path = IF u.path = "" THEN "/" ELSE u.path]

\* schemas.py URLCreate: the request bodies a creation may carry
\* (original_url, custom_slug, expires_in_hours: Optional[int]).
Body(url, slug, hours) ==
  [original_url |-> url, custom_slug |-> slug, expires_in_hours |-> hours]

Bodies ==
  { Body(u_example, None, None),
    Body(u_github, None, Some(1)),
    Body(u_example, Some(s_ab1), None),
    Body(u_github, Some(s_ab1), Some(1)),
    Body(u_example, Some(s_api), None),
    Body(u_example, Some(s_Api), None),
    Body(u_example, None, Some(-1)),
    Body(u_invalid, None, None),
    Body(u_example, Some(s_ab), None),
    Body(u_example, Some(s_a_b), None),
    Body(u_example, Some(s_long), None) }


\* -------------------------------------------------------------- state
VARIABLES
  urls,             \* table "urls" (models.py URL); a row's id is its index
  click_rows,       \* table "clicks": click_rows[id] = rows with url_id = id
  cache,            \* Redis: key "url:<code>" -> value and expiry time
  now,              \* the clock (datetime.now(timezone.utc), Redis time)
  redirects_total,  \* main.py redirects_total counter, by short_code label
  nreq,             \* requests started so far
  last,             \* the request that finished latest and its response
  pc,               \* each worker's place in its handler
  loc               \* each worker's parameters and local variables

vars ==
  <<urls, click_rows, cache, now, redirects_total, nreq, last, pc, loc>>

\* A handler's parameters (short_code; data.original_url, data.custom_slug,
\* data.expires_in_hours) and locals (cached_url, url_record, short_code,
\* attempts).  inactive0 and expired0 note what the store held for the code
\* when a redirect arrived, and slug0 the custom_slug as the request body
\* carried it (before validate_slug); no handler reads them.
NoLoc == [op |-> "none", short_code |-> None, original_url |-> None,
          custom_slug |-> None, expires_in_hours |-> None,
          cached_url |-> None, url_record |-> None, attempts |-> 0,
          inactive0 |-> FALSE, expired0 |-> FALSE, slug0 |-> None]

\* A response: HTTP status, the exception or outcome behind it, the
\* Location header (redirect) or original_url (creation), and the body of a
\* stats response.
Response(status, detail, url) ==
  [status |-> status, detail |-> detail, url |-> url, body |-> None]

HTTPException(status, detail) == Response(status, detail, None)

\* An exception no handler catches: FastAPI answers 500.
Unhandled(detail) == Response(500, detail, None)

\* fastapi RedirectResponse(url=..., status_code=307)
RedirectResponse(url) == Response(307, "redirect", Some(url))

\* What is seen of a finished request: the operation, its short_code (the
\* path parameter, or the code of the creation), the custom_slug sent, what
\* the cache answered, and the response.
Seen(l, r) ==
  [op |-> l.op, short_code |-> l.short_code, slug0 |-> l.slug0,
   cached_url |-> l.cached_url,
   status |-> r.status, detail |-> r.detail, url |-> r.url, body |-> r.body]

Init ==
  /\ urls = <<>>
  /\ click_rows = <<>>
  /\ cache = [k \in Keys |-> None]
  /\ now = 0
  /\ redirects_total = [k \in Keys |-> 0]
  /\ nreq = 0
  /\ last = Seen(NoLoc, Response(0, "", None))
  /\ pc = [w \in Workers |-> "idle"]
  /\ loc = [w \in Workers |-> NoLoc]

\* ------------------------------------------------------------- store
\* db.query(URL).filter(URL.short_code == code).first(): the row's id or None
QueryFirst(code) ==
  LET ids == {i \in 1..Len(urls) : urls[i].short_code = code}
  IN IF ids = {} THEN None
     ELSE Some(CHOOSE i \in ids : \A j \in ids : i <= j)

\* Loaded taking original_url from the first row of the table
Loaded_FirstRowUrl(id) ==
  [id |-> id, original_url |-> urls[1].original_url,
   clicks |-> urls[id].clicks, is_active |-> urls[id].is_active,
   expires_at |-> urls[id].expires_at]

\* The ORM object a query returns: the row as read, with its id.
Loaded(id) == [id |-> id, original_url |-> urls[id].original_url,
               clicks |-> urls[id].clicks, is_active |-> urls[id].is_active,
               expires_at |-> urls[id].expires_at]

\* is_expired with the comparison turned around
is_expired_Reversed(expires_at) ==
  IF expires_at = None THEN FALSE ELSE expires_at[1] > now

\* helpers.py is_expired
is_expired(expires_at) ==
  IF expires_at = None THEN FALSE ELSE expires_at[1] < now

\* The store holds a deactivated / an expired row for the code.
Inactive(code) ==
  QueryFirst(code) # None /\ ~urls[QueryFirst(code)[1]].is_active

Expired(code) ==
  QueryFirst(code) # None /\ is_expired(urls[QueryFirst(code)[1]].expires_at)

\* ------------------------------------------------------------- cache
\* Redis keeps an entry until its expiry time.
Live(k) == cache[k] # None /\ now < cache[k][1].expire

\* cache.py get_cached_url
get_cached_url(short_code) ==
  IF Live(short_code) THEN Some(cache[short_code][1].value) ELSE None

\* A put that keeps the expiry of the entry it replaces (SET with KEEPTTL
\* in place of SETEX).
cache_url_KeepExpiry(short_code, original_url) ==
  [cache EXCEPT ![short_code] =
     Some([value |-> original_url,
           expire |-> IF cache[short_code] # None
                        THEN cache[short_code][1].expire
                        ELSE now + CACHE_TTL])]

\* cache.py cache_url: setex(key, CACHE_TTL, value)
cache_url(short_code, original_url) ==
  [cache EXCEPT ![short_code] =
     Some([value |-> original_url, expire |-> now + CACHE_TTL])]

\* ------------------------------------------------------------ workers
Free(w) == pc[w] = "idle"

\* The handler returns or raises with locals l and response r; the session
\* is closed (database.py get_db) and the worker is free again.
Finish(w, r, l) ==
  /\ pc' = [pc EXCEPT ![w] = "idle"]
  /\ loc' = [loc EXCEPT ![w] = NoLoc]
  /\ last' = Seen(l, r)

\* A step inside a handler: the worker moves on with locals l.
Goto(w, place, l) ==
  /\ pc' = [pc EXCEPT ![w] = place]
  /\ loc' = [loc EXCEPT ![w] = l]
  /\ UNCHANGED last

\* ----------------------------------------------------------- redirect
\* MissOutcome without the is_active check
MissOutcome_NoActiveCheck(rec) ==
  IF rec = None THEN HTTPException(404, "not_found")
  ELSE IF is_expired(rec[1].expires_at) THEN HTTPException(410, "expired")
  ELSE RedirectResponse(rec[1].original_url)

\* MissOutcome answering 410 when no row has the code
MissOutcome_UnknownGone(rec) ==
  IF rec = None THEN HTTPException(410, "not_found")
  ELSE IF ~rec[1].is_active THEN HTTPException(410, "deactivated")
  ELSE IF is_expired(rec[1].expires_at) THEN HTTPException(410, "expired")
  ELSE RedirectResponse(rec[1].original_url)

\* MissOutcome with the expiry check before the is_active check
MissOutcome_ExpiryFirst(rec) ==
  IF rec = None THEN HTTPException(404, "not_found")
  ELSE IF is_expired(rec[1].expires_at) THEN HTTPException(410, "expired")
  ELSE IF ~rec[1].is_active THEN HTTPException(410, "deactivated")
  ELSE RedirectResponse(rec[1].original_url)

\* main.py redirect_url, cache miss: what the handler decides from the row
\* it read (None: no row), in the order of its checks.
MissOutcome(rec) ==
  IF rec = None THEN HTTPException(404, "not_found")
  ELSE IF ~rec[1].is_active THEN HTTPException(410, "deactivated")
  ELSE IF is_expired(rec[1].expires_at) THEN HTTPException(410, "expired")
  ELSE RedirectResponse(rec[1].original_url)

\* ClicksWritten without the increment
ClicksWritten_NoIncrement(rec) == rec.clicks

\* url_record.clicks += 1: the value the session writes is computed from
\* the row as this session read it.
ClicksWritten(rec) == rec.clicks + 1

\* CommitClick writing back every column of the row as loaded
CommitClick_WholeRow(rec) ==
  /\ urls' = [urls EXCEPT ![rec.id].clicks = ClicksWritten(rec),
                          ![rec.id].is_active = rec.is_active]
  /\ click_rows' = [click_rows EXCEPT ![rec.id] = @ + 1]

\* db.add(Click(url_id=...)); url_record.clicks += 1; db.commit():
\* one transaction inserts the Click row and updates the clicks column.
CommitClick(rec) ==
  /\ urls' = [urls EXCEPT ![rec.id].clicks = ClicksWritten(rec)]
  /\ click_rows' = [click_rows EXCEPT ![rec.id] = @ + 1]

\* redirects_total.labels(short_code=short_code).inc()
CountRedirect(code) ==
  redirects_total' = [redirects_total EXCEPT ![code] = @ + 1]

\* GET /{short_code}: the reserved-word check and the cache read.
RedirectStart(w, code) ==
  LET l == [NoLoc EXCEPT !.op = "redirect", !.short_code = Some(code),
                         !.inactive0 = Inactive(code),
                         !.expired0 = Expired(code)] IN
  /\ Free(w)
  /\ nreq < MaxReq
  /\ nreq' = nreq + 1
  /\ UNCHANGED <<urls, click_rows, cache, now, redirects_total>>
  /\ IF code \in RESERVED_WORDS
       THEN Finish(w, HTTPException(404, "reserved"), l)
       ELSE \E up \in BOOLEAN :
              IF ~up
                THEN Finish(w, Unhandled("redis_error"), l)
                ELSE Goto(w, IF get_cached_url(code) # None
                               THEN "hit_query" ELSE "miss_query",
                          [l EXCEPT !.cached_url = get_cached_url(code)])

\* Cache hit: the row is read only to attribute the click.
HitQuery(w) ==
  /\ pc[w] = "hit_query"
  /\ UNCHANGED <<urls, click_rows, cache, now, nreq>>
  /\ LET id == QueryFirst(loc[w].short_code[1]) IN
     IF id = None
       THEN /\ CountRedirect(loc[w].short_code[1])
            /\ Finish(w, RedirectResponse(loc[w].cached_url[1]), loc[w])
       ELSE /\ Goto(w, "hit_commit",
                    [loc[w] EXCEPT !.url_record = Some(Loaded(id[1]))])
            /\ UNCHANGED redirects_total

\* Cache hit: the click is committed and the cached URL returned.
HitCommit(w) ==
  /\ pc[w] = "hit_commit"
  /\ UNCHANGED <<cache, now, nreq>>
  /\ \E ok \in BOOLEAN :
       IF ~ok
         THEN /\ Finish(w, Unhandled("db_error"), loc[w])
              /\ UNCHANGED <<urls, click_rows, redirects_total>>
         ELSE /\ CommitClick(loc[w].url_record[1])
              /\ CountRedirect(loc[w].short_code[1])
              /\ Finish(w, RedirectResponse(loc[w].cached_url[1]), loc[w])

\* Cache miss: the row is read and checked.
MissQuery(w) ==
  /\ pc[w] = "miss_query"
  /\ UNCHANGED <<urls, click_rows, cache, now, nreq, redirects_total>>
  /\ LET id == QueryFirst(loc[w].short_code[1])
         rec == IF id = None THEN None ELSE Some(Loaded(id[1]))
     IN IF MissOutcome(rec).status # 307
          THEN Finish(w, MissOutcome(rec), loc[w])
          ELSE Goto(w, "miss_cache", [loc[w] EXCEPT !.url_record = rec])

\* Cache miss: cache_url(short_code, url_record.original_url).
MissCache(w) ==
  /\ pc[w] = "miss_cache"
  /\ UNCHANGED <<urls, click_rows, now, nreq, redirects_total>>
  /\ \E up \in BOOLEAN :
       IF ~up
         THEN /\ Finish(w, Unhandled("redis_error"), loc[w])
              /\ UNCHANGED cache
         ELSE /\ cache' = cache_url(loc[w].short_code[1],
                                    loc[w].url_record[1].original_url)
              /\ Goto(w, "miss_commit", loc[w])

\* Cache miss: the click is committed and the row's URL returned.
MissCommit(w) ==
  /\ pc[w] = "miss_commit"
  /\ UNCHANGED <<cache, now, nreq>>
  /\ \E ok \in BOOLEAN :
       IF ~ok
         THEN /\ Finish(w, Unhandled("db_error"), loc[w])
              /\ UNCHANGED <<urls, click_rows, redirects_total>>
         ELSE /\ CommitClick(loc[w].url_record[1])
              /\ CountRedirect(loc[w].short_code[1])
              /\ Finish(w, RedirectResponse(loc[w].url_record[1].original_url),
                        loc[w])

\* ----------------------------------------------------------- creation
\* Python truthiness of an Optional[str] / Optional[int]
TruthyStr(x) == x # None /\ Len(x[1]) > 0
TruthyInt(x) == x # None /\ x[1] # 0

\* SlugTaken with the existence check lost
SlugTaken_Never(slug) == FALSE

\* main.py shorten_url step 2: the slug is taken if a row has it
SlugTaken(slug) == QueryFirst(slug) # None

\* UniqueViolation without the unique constraint on the column
UniqueViolation_Off(code) == FALSE

\* models.py URL.short_code unique=True: the insert of a row whose
\* short_code another row has raises IntegrityError.
UniqueViolation(code) == \E i \in 1..Len(urls) : urls[i].short_code = code

\* main.py shorten_url step 4
ExpiresAt(hours) == IF TruthyInt(hours) THEN Some(now + hours[1] * HOUR) ELSE None

\* main.py shorten_url step 5: the row the handler adds (created_at, which
\* the database sets and no handler reads back into a decision, is left out)
NewRow(l) ==
  [original_url |-> l.original_url[1],
   short_code |-> l.short_code[1],
   is_custom |-> TruthyStr(l.custom_slug),
   expires_at |-> ExpiresAt(l.expires_in_hours),
   clicks |-> 0,
   is_active |-> TRUE]

\* POST /api/v1/shorten: the request body is validated (schemas.py URLCreate)
\* and the handler takes the custom-slug or the generated-code branch.
ShortenStart(w, data) ==
  LET l == [NoLoc EXCEPT !.op = "shorten", !.slug0 = data.custom_slug]
      url == data.original_url
      slug == data.custom_slug
      hours == data.expires_in_hours
  IN
  /\ Free(w)
  /\ nreq < MaxReq
  /\ nreq' = nreq + 1
  /\ UNCHANGED <<urls, click_rows, cache, now, redirects_total>>
  /\ IF ~ValidHttpUrl(url) \/ validate_slug(slug) = None
       THEN Finish(w, HTTPException(422, "validation"), l)
       ELSE Goto(w, IF TruthyStr(validate_slug(slug)[1])
                      THEN "s_check" ELSE "s_generate",
                 [l EXCEPT !.original_url = Some(UrlStr(url)),
                           !.custom_slug = validate_slug(slug)[1],
                           !.expires_in_hours = hours])

\* Custom slug: the existence check.
ShortenCheck(w) ==
  /\ pc[w] = "s_check"
  /\ UNCHANGED <<urls, click_rows, cache, now, nreq, redirects_total>>
  /\ IF SlugTaken(loc[w].custom_slug[1])
       THEN Finish(w, HTTPException(400, "taken"),
                   [loc[w] EXCEPT !.short_code = loc[w].custom_slug])
       ELSE Goto(w, "s_insert",
                 [loc[w] EXCEPT !.short_code = loc[w].custom_slug])

\* ShortenGenerate taking the first candidate without looking it up
ShortenGenerate_NoLookup(w) ==
  /\ pc[w] = "s_generate"
  /\ UNCHANGED <<urls, click_rows, cache, now, nreq, redirects_total>>
  /\ \E code \in GenCodes :
       Goto(w, "s_insert", [loc[w] EXCEPT !.short_code = Some(code)])

\* Generated code: one turn of the while loop (generate, then look it up),
\* with the check after the loop when the attempts run out.
ShortenGenerate(w) ==
  /\ pc[w] = "s_generate"
  /\ UNCHANGED <<urls, click_rows, cache, now, nreq, redirects_total>>
  /\ \E code \in GenCodes :
       IF QueryFirst(code) = None
         THEN Goto(w, "s_insert", [loc[w] EXCEPT !.short_code = Some(code)])
         ELSE IF loc[w].attempts + 1 < max_attempts
           THEN Goto(w, "s_generate", [loc[w] EXCEPT !.attempts = @ + 1])
           ELSE Finish(w, HTTPException(500, "exhausted"), loc[w])

\* The expiry is computed and the row inserted and committed.
ShortenInsert(w) ==
  /\ pc[w] = "s_insert"
  /\ UNCHANGED <<cache, now, nreq, redirects_total>>
  /\ \E ok \in BOOLEAN :
       IF ~ok
         THEN /\ Finish(w, Unhandled("db_error"), loc[w])
              /\ UNCHANGED <<urls, click_rows>>
         ELSE IF UniqueViolation(loc[w].short_code[1])
           THEN /\ Finish(w, Unhandled("integrity_error"), loc[w])
                /\ UNCHANGED <<urls, click_rows>>
           ELSE /\ urls' = Append(urls, NewRow(loc[w]))
                /\ click_rows' = Append(click_rows, 0)
                /\ Finish(w, Response(200, "created", loc[w].original_url),
                          loc[w])

\* -------------------------------------------------------------- stats
\* StatsResponse reporting every row as active
StatsResponse_AlwaysActive(rec) ==
  [short_code |-> rec.short_code,
   original_url |-> rec.original_url,
   total_clicks |-> rec.clicks,
   expires_at |-> rec.expires_at,
   is_active |-> TRUE]

\* main.py get_stats: StatsResponse(short_code=..., original_url=...,
\* total_clicks=url_record.clicks, expires_at=..., is_active=...) from the
\* row (created_at, which the rows here do not carry, is left out)
StatsResponse(rec) ==
  [short_code |-> rec.short_code,
   original_url |-> rec.original_url,
   total_clicks |-> rec.clicks,
   expires_at |-> rec.expires_at,
   is_active |-> rec.is_active]

\* GET /api/v1/stats/{short_code}: one query, then 404 or the row's figures.
GetStats(w, code) ==
  LET l == [NoLoc EXCEPT !.op = "stats", !.short_code = Some(code)]
      id == QueryFirst(code)
  IN
  /\ Free(w)
  /\ nreq < MaxReq
  /\ nreq' = nreq + 1
  /\ UNCHANGED <<urls, click_rows, cache, now, redirects_total>>
  /\ IF id = None
       THEN Finish(w, HTTPException(404, "stats_not_found"), l)
       ELSE Finish(w, [Response(200, "stats", None) EXCEPT
                         !.body = Some(StatsResponse(urls[id[1]]))], l)

\* -------------------------------------------------------- environment
\* Time passes; Redis drops the entries whose TTL has run out.
Tick ==
  /\ now < MaxTime
  /\ now' = now + 1
  /\ cache' = [k \in Keys |->
       IF cache[k] # None /\ now + 1 < cache[k][1].expire THEN cache[k] ELSE None]
  /\ UNCHANGED <<urls, click_rows, redirects_total, nreq, last, pc, loc>>

\* models.py URL.is_active ("allows us to disable without deleting"): a row
\* is deactivated in the store; no handler of main.py does it, and nothing
\* calls cache.py invalidate_url.
Deactivate(id) ==
  /\ id \in 1..Len(urls)
  /\ urls[id].is_active
  /\ urls' = [urls EXCEPT ![id].is_active = FALSE]
  /\ UNCHANGED <<click_rows, cache, now, redirects_total, nreq, last, pc, loc>>

\* ------------------------------------------------------ specifications
Redirect(w) == \E code \in PathCodes : RedirectStart(w, code)

Shorten(w) == \E data \in Bodies : ShortenStart(w, data)

Step(w) ==
  \/ HitQuery(w)
  \/ HitCommit(w)
  \/ MissQuery(w)
  \/ MissCache(w)
  \/ MissCommit(w)
  \/ ShortenCheck(w)
  \/ ShortenGenerate(w)
  \/ ShortenInsert(w)

Environment == Tick \/ \E id \in 1..Len(urls) : Deactivate(id)

\* Requests are handled concurrently.
Next ==
  \/ \E w \in Workers : Redirect(w) \/ Shorten(w) \/ Step(w)
  \/ Environment

Spec == Init /\ [][Next]_vars

\* Requests are issued one after another: a request starts only when no
\* other is in flight.
Serial == \A w \in Workers : Free(w)

NextSeq ==
  \/ \E w \in Workers : (Serial /\ (Redirect(w) \/ Shorten(w))) \/ Step(w)
  \/ Environment

SpecSeq == Init /\ [][NextSeq]_vars

\* Requests for the service's own path segments: redirects ask for the
\* reserved words (and for one ordinary code), creations carry a reserved
\* word or an ordinary slug or none.
ReservedBodies ==
  { Body(u_example, Some(s_api), None),
    Body(u_example, Some(s_ab1), None),
    Body(u_example, None, None) }

RedirectReserved(w) ==
  \E code \in ReservedPaths \cup {s_ab1} : RedirectStart(w, code)

ShortenReserved(w) == \E data \in ReservedBodies : ShortenStart(w, data)

NextReserved ==
  \/ \E w \in Workers : RedirectReserved(w) \/ ShortenReserved(w) \/ Step(w)
  \/ Environment

SpecReserved == Init /\ [][NextReserved]_vars

\* Requests with the stats operation among them: creations with a custom
\* slug or an expiry, redirects and stats of the codes they may produce and
\* of an unknown code.
StatsBodies ==
  { Body(u_example, Some(s_ab1), None),
    Body(u_github, None, Some(1)) }

StatsCodes == {s_ab1, s_gen1, s_zzz}

RedirectOfStats(w) == \E code \in StatsCodes : RedirectStart(w, code)

ShortenOfStats(w) == \E data \in StatsBodies : ShortenStart(w, data)

Stats(w) == \E code \in StatsCodes : GetStats(w, code)

NextStats ==
  \/ \E w \in Workers :
       RedirectOfStats(w) \/ ShortenOfStats(w) \/ Stats(w) \/ Step(w)
  \/ Environment

SpecStats == Init /\ [][NextStats]_vars

\* Redirects of one code whose row exists from the start (the state after
\* POST /api/v1/shorten {original_url: "https://example.com", custom_slug:
\* "ab1"} was served), handled concurrently.
InitClicks ==
  /\ urls = <<NewRow([NoLoc EXCEPT !.original_url = Some(UrlStr(u_example)),
                                   !.short_code = Some(s_ab1),
                                   !.custom_slug = Some(s_ab1)])>>
  /\ click_rows = <<0>>
  /\ cache = [k \in Keys |-> None]
  /\ now = 0
  /\ redirects_total = [k \in Keys |-> 0]
  /\ nreq = 0
  /\ last = Seen(NoLoc, Response(0, "", None))
  /\ pc = [w \in Workers |-> "idle"]
  /\ loc = [w \in Workers |-> NoLoc]

NextClicks ==
  \/ \E w \in Workers :
       \/ RedirectStart(w, s_ab1)
       \/ HitQuery(w)
       \/ HitCommit(w)
       \/ MissQuery(w)
       \/ MissCache(w)
       \/ MissCommit(w)
  \/ Tick

SpecClicks == InitClicks /\ [][NextClicks]_vars

\* Redirects of one code whose row exists from the start, without an expiry
\* or with expires_at equal to the clock's first reading (a row created an
\* hour earlier with expires_in_hours = 1); the row may be deactivated
\* while the clock shows its first reading.
InitStale ==
  /\ \E e \in {None, Some(0)} :
       urls = <<[NewRow([NoLoc EXCEPT
                          !.original_url = Some(UrlStr(u_example)),
                          !.short_code = Some(s_ab1),
                          !.custom_slug = Some(s_ab1)])
                  EXCEPT !.expires_at = e]>>
  /\ click_rows = <<0>>
  /\ cache = [k \in Keys |-> None]
  /\ now = 0
  /\ redirects_total = [k \in Keys |-> 0]
  /\ nreq = 0
  /\ last = Seen(NoLoc, Response(0, "", None))
  /\ pc = [w \in Workers |-> "idle"]
  /\ loc = [w \in Workers |-> NoLoc]

DeactivateAtStart == now = 0 /\ Deactivate(1)

NextStale ==
  \/ \E w \in Workers :
       \/ RedirectStart(w, s_ab1)
       \/ HitQuery(w)
       \/ HitCommit(w)
       \/ MissQuery(w)
       \/ MissCache(w)
       \/ MissCommit(w)
  \/ Tick
  \/ DeactivateAtStart

SpecStale == InitStale /\ [][NextStale]_vars


\* ============================================================ claims
\* A step that ends worker w's redirect of code, and a step in which a
\* redirect of code arrives and is answered at once (reserved word, or Redis
\* unreachable at the cache read).
RedirectEnds(w, code) ==
  /\ pc[w] # "idle"
  /\ pc'[w] = "idle"
  /\ loc[w].op = "redirect"
  /\ loc[w].short_code = Some(code)

RedirectEndsAtOnce(code) ==
  /\ nreq' = nreq + 1
  /\ pc' = pc
  /\ last'.op = "redirect"
  /\ last'.short_code = Some(code)

\* The response is the server error of an unreachable cache or a failed
\* commit.
DependencyError(r) == r.detail \in {"redis_error", "db_error"}

C1_WitnessHit ==
  /\ last.op = "redirect"
  /\ last.cached_url # None
  /\ last.status = 307
  /\ Inactive(last.short_code[1])

Dark(code) ==
  /\ Expired(code)
  /\ ~Live(code)
  /\ \A w \in Workers :
       ~(pc[w] = "miss_cache" /\ loc[w].short_code = Some(code))

C3_NoLostUpdate ==
  (\A w \in Workers : pc[w] = "idle") =>
    \A i \in 1..Len(urls) : urls[i].clicks = redirects_total[urls[i].short_code]

\* ---------------------------------------------------------------- C4
\* C4: with the requests issued one after another, every row's clicks is
\* the number of redirects of its code that returned a redirect response
\* since the row was created (0 for a fresh row), and as many Click rows
\* exist for it, on the cache-hit path as on the store path.
C4_SerialClickCount ==
  \A i \in 1..Len(urls) :
    /\ urls[i].clicks = redirects_total[urls[i].short_code]
    /\ click_rows[i] = urls[i].clicks

\* Two redirects of one code, one after the other, the second on the
\* cache-hit path (the first filled the cache on the store path): clicks 2.
C4_Witness ==
  /\ last.op = "redirect"
  /\ last.status = 307
  /\ last.cached_url # None
  /\ \E i \in 1..Len(urls) :
       /\ urls[i].short_code = last.short_code[1]
       /\ urls[i].clicks = 2
       /\ redirects_total[urls[i].short_code] = 2

\* ---------------------------------------------------------------- C5
\* C5 as stated: the redirect of a code issued right after the creation
\* that returned it (the creation is the latest finished request, and the
\* row has been neither deactivated nor has it expired) returns 307 to the
\* destination the creation returned, and the row's clicks becomes 1
\* (server errors of a failed dependency set aside).
C5_RoundTrip ==
  [][\A code \in PathCodes :
       (/\ last.op = "shorten"
        /\ last.status = 200
        /\ last.short_code = Some(code)
        /\ \/ \E w \in Workers : RedirectEnds(w, code)
           \/ RedirectEndsAtOnce(code)
        /\ ~Inactive(code)
        /\ ~Expired(code)
        /\ ~DependencyError(last'))
       => /\ last'.status = 307
          /\ last'.url = last.url
          /\ urls'[QueryFirst(code)[1]].clicks = 1]_vars

\* ---------------------------------------------------------------- C6
\* C6: in every reachable state no two rows of urls have the same
\* short_code, and a creation without a custom slug that succeeds adds one
\* row whose code no row had before.
C6_UniqueCodes ==
  /\ [](\A i, j \in 1..Len(urls) :
          i # j => urls[i].short_code # urls[j].short_code)
  /\ [][\A w \in Workers :
          (/\ pc[w] = "s_insert"
           /\ pc'[w] = "idle"
           /\ loc[w].custom_slug = None
           /\ last'.status = 200)
          => /\ \A i \in 1..Len(urls) :
                  urls[i].short_code # last'.short_code[1]
             /\ Len(urls') = Len(urls) + 1
             /\ urls'[Len(urls')].short_code = last'.short_code[1]]_vars

\* Two creations raced for one code: one row has it, and the insert of the
\* other was refused by the unique constraint.
C6_Witness ==
  /\ last.op = "shorten"
  /\ last.detail = "integrity_error"
  /\ \E i \in 1..Len(urls) :
       urls[i].short_code = last.short_code[1] /\ ~urls[i].is_custom

\* ---------------------------------------------------------------- C7
\* C7 as stated: a step in which a redirect returns its redirect response
\* adds exactly one Click row for the code's row and raises that row's
\* clicks by exactly one, so that clicks and Click rows stay in step.
C7_ClickWithIncrement ==
  [][\A code \in PathCodes, w \in Workers :
       (RedirectEnds(w, code) /\ last'.status = 307 /\ QueryFirst(code) # None)
       => LET id == QueryFirst(code)[1] IN
          /\ click_rows'[id] = click_rows[id] + 1
          /\ urls'[id].clicks = urls[id].clicks + 1]_vars

\* ---------------------------------------------------------------- C8
\* C8 as stated: a redirect of a code whose row is active and not expired
\* returns the redirect response also when the cache is unreachable at its
\* read or at its write: a cache failure never becomes an error returned to
\* the caller (the failure of the click commit set aside).
C8_CacheFailOpen ==
  [][\A code \in PathCodes \ RESERVED_WORDS :
       (/\ \/ \E w \in Workers : RedirectEnds(w, code)
           \/ RedirectEndsAtOnce(code)
        /\ QueryFirst(code) # None
        /\ ~Inactive(code)
        /\ ~Expired(code)
        /\ last'.detail # "db_error")
       => last'.status = 307]_vars

\* ---------------------------------------------------------------- C9
\* C9 as stated: once the destination is decided (the handler is at the
\* commit of the click), the redirect returns the redirect response to that
\* destination, also when the commit fails.
C9_CommitFailureKeepsRedirect ==
  [][\A w \in Workers :
       (pc[w] \in {"hit_commit", "miss_commit"} /\ pc'[w] = "idle")
       => last' = Seen(loc[w], RedirectResponse(
                    IF pc[w] = "hit_commit" THEN loc[w].cached_url[1]
                    ELSE loc[w].url_record[1].original_url))]_vars

\* --------------------------------------------------------------- C10
\* C10: a creation whose custom slug (as validated) a row of urls already
\* has is answered 400 (Conflict) at its existence check, and the step
\* changes no row, no Click row and no cache entry.
C10_TakenSlugConflict ==
  [][\A w \in Workers :
       (/\ pc[w] = "s_check"
        /\ pc'[w] # "s_check"
        /\ \E i \in 1..Len(urls) : urls[i].short_code = loc[w].custom_slug[1])
       => /\ pc'[w] = "idle"
          /\ last'.op = "shorten"
          /\ last'.status = 400
          /\ last'.short_code = loc[w].custom_slug
          /\ urls' = urls
          /\ click_rows' = click_rows
          /\ cache' = cache]_vars

\* A second creation with the custom slug of an existing row, carrying
\* another destination, was answered 400.
C10_Witness ==
  /\ last.op = "shorten"
  /\ last.status = 400
  /\ \E i \in 1..Len(urls) :
       /\ urls[i].short_code = last.short_code[1]
       /\ urls[i].original_url = UrlStr(u_github)
       /\ urls[i].clicks > 0

\* --------------------------------------------------------------- C11
\* C11: a redirect of a reserved word (api, health, docs, redoc,
\* openapi.json, shorten, stats, cache) is answered 404 in the step in which
\* it arrives: no worker is ever inside the redirect handler (at its cache
\* read, its store query, its cache write or its commit) with a reserved
\* word, and the answering step leaves the rows, the Click rows, the cache
\* and the redirect counter as they were, also when a row has that code.
C11_ReservedNotFound ==
  /\ [](\A w \in Workers :
          (pc[w] # "idle" /\ loc[w].op = "redirect")
            => loc[w].short_code[1] \notin ReservedPaths)
  /\ [][\A code \in ReservedPaths :
          RedirectEndsAtOnce(code)
            => /\ last'.status = 404
               /\ last'.detail = "reserved"
               /\ last'.cached_url = None
               /\ UNCHANGED <<urls, click_rows, cache, redirects_total>>]_vars

\* A row with the code "api" exists, and a redirect of "api" was answered
\* 404 as a reserved word.
C11_Witness ==
  /\ last.op = "redirect"
  /\ last.short_code = Some(s_api)
  /\ last.status = 404
  /\ last.detail = "reserved"
  /\ QueryFirst(s_api) # None

\* --------------------------------------------------------------- C12
\* C12: a redirect that is answered 404 or 410 is answered at its arrival
\* (reserved word) or at its store query after a cache miss, and neither
\* its arrival step nor its query step changes a row, a Click row, a cache
\* entry or the redirect counter; and a redirect that misses the cache and
\* finds no row is answered 404 (not found).
C12_UnresolvedNoEffect ==
  [][/\ \A code \in PathCodes, w \in Workers :
          /\ (RedirectEnds(w, code) /\ last'.status \in {404, 410})
                => /\ pc[w] = "miss_query"
                   /\ UNCHANGED <<urls, click_rows, cache, redirects_total>>
          /\ (pc[w] = "idle" /\ pc'[w] = "miss_query")
                => UNCHANGED <<urls, click_rows, cache, redirects_total>>
          /\ (RedirectEnds(w, code) /\ pc[w] = "miss_query"
                 /\ QueryFirst(code) = None)
                => /\ last'.status = 404
                   /\ last'.detail = "not_found"
     /\ \A code \in PathCodes :
          (RedirectEndsAtOnce(code) /\ last'.status \in {404, 410})
            => UNCHANGED <<urls, click_rows, cache, redirects_total>>]_vars

\* With a row in the store and an entry in the cache for another code, a
\* redirect of "zzz000" (no row, no entry) was answered 404.
C12_Witness ==
  /\ last.op = "redirect"
  /\ last.short_code = Some(s_zzz)
  /\ last.cached_url = None
  /\ last.status = 404
  /\ last.detail = "not_found"
  /\ QueryFirst(s_zzz) = None
  /\ Len(urls) > 0
  /\ \E k \in PathCodes : Live(k)

\* --------------------------------------------------------------- C13
\* The claim's rule for a custom code: 3 to 10 characters, all of them
\* letters or digits.
C13_WellFormed(slug) ==
  /\ Len(slug) >= 3
  /\ Len(slug) <= 10
  /\ \A i \in 1..Len(slug) :
       IsDigit(slug[i]) \/ IsUpper(slug[i]) \/ IsLower(slug[i])

\* C13: a creation that carries a custom slug goes past validation only if
\* the slug is well-formed, and then works with the slug in lower case: the
\* existence check answers 400 when a row has the lower-cased slug, and a
\* successful insert stores the lower-cased slug; a creation that does not
\* go past validation is answered 422 and adds no row; every custom row's
\* code is well-formed and in lower case.
C13_CustomSlugRule ==
  /\ [](\A i \in 1..Len(urls) :
          urls[i].is_custom
            => /\ C13_WellFormed(urls[i].short_code)
               /\ urls[i].short_code = lower(urls[i].short_code))
  /\ [][\A w \in Workers :
          /\ (pc[w] = "idle" /\ pc'[w] # "idle" /\ loc'[w].op = "shorten"
                 /\ loc'[w].slug0 # None)
                => /\ C13_WellFormed(loc'[w].slug0[1])
                   /\ loc'[w].custom_slug = Some(lower(loc'[w].slug0[1]))
                   /\ pc'[w] = "s_check"
          /\ (nreq' = nreq + 1 /\ pc' = pc /\ last'.op = "shorten")
                => /\ last'.status = 422
                   /\ urls' = urls
          /\ (pc[w] = "s_check" /\ pc'[w] # "s_check"
                 /\ \E i \in 1..Len(urls) :
                      urls[i].short_code = lower(loc[w].slug0[1]))
                => /\ last'.status = 400
                   /\ last'.slug0 = loc[w].slug0
                   /\ urls' = urls
          /\ (pc[w] = "s_insert" /\ pc'[w] = "idle" /\ loc[w].slug0 # None
                 /\ Len(urls') = Len(urls) + 1)
                => /\ urls'[Len(urls')].short_code = lower(loc[w].slug0[1])
                   /\ urls'[Len(urls')].is_custom]_vars

\* A row has the code "api", and a creation that carried the custom slug
\* "Api" was answered 400.
C13_Witness ==
  /\ last.op = "shorten"
  /\ last.slug0 = Some(s_Api)
  /\ last.status = 400
  /\ QueryFirst(s_api) # None
  /\ QueryFirst(s_Api) = None

\* --------------------------------------------------------------- C14
\* A stats request for code is answered (it is answered in the step in
\* which it arrives).
StatsEnds(code) ==
  /\ nreq' = nreq + 1
  /\ pc' = pc
  /\ last'.op = "stats"
  /\ last'.short_code = Some(code)

\* C14: a stats request is answered 404 when no row has the code, and
\* otherwise 200 with the row's code, destination, clicks, expiry and
\* active flag as stored, also for a deactivated or expired row; its step
\* changes no row, no Click row, no cache entry and no counter, and leaves
\* every request in flight where it was.
C14_StatsReadOnly ==
  [][\A code \in StatsCodes :
       StatsEnds(code)
         => /\ UNCHANGED <<urls, click_rows, cache, redirects_total, now, loc>>
            /\ IF \A i \in 1..Len(urls) : urls[i].short_code # code
                 THEN last'.status = 404 /\ last'.body = None
                 ELSE \E i \in 1..Len(urls) :
                        /\ urls[i].short_code = code
                        /\ last'.status = 200
                        /\ last'.body =
                             Some([short_code |-> code,
                                   original_url |-> urls[i].original_url,
                                   total_clicks |-> urls[i].clicks,
                                   expires_at |-> urls[i].expires_at,
                                   is_active |-> urls[i].is_active])]_vars

\* The stats of a deactivated row that was redirected once: 200 with
\* total_clicks 1 and is_active false.
C14_Witness ==
  /\ last.op = "stats"
  /\ last.status = 200
  /\ last.body # None
  /\ last.body[1].total_clicks = 1
  /\ ~last.body[1].is_active
  /\ Inactive(last.short_code[1])

\* --------------------------------------------------------------- C15
\* C15 as stated, its first half: no step of any execution lowers a row's
\* clicks, concurrent redirects of one code included.  (Its second half,
\* clicks equal to the number of Click rows of the row in every committed
\* state, fails with the lost update of C3.)
C15_ClicksNeverDecrease ==
  [][\A i \in 1..Len(urls) : urls'[i].clicks >= urls[i].clicks]_vars

\* --------------------------------------------------------------- C16
\* C16 as stated: in a step that writes a cache entry for a code, the row
\* of that code is active and not expired.
C16_CacheWriteOnlyForValid ==
  [][\A code \in PathCodes, w \in Workers :
       (/\ pc[w] = "miss_cache"
        /\ pc'[w] = "miss_commit"
        /\ loc[w].short_code = Some(code)
        /\ cache'[code] # None)
       => (~Inactive(code) /\ ~Expired(code))]_vars

\* --------------------------------------------------------------- C17
\* The row of code was deactivated (at the clock's first reading, 0) or
\* reached its expires_at at least one cache TTL ago.
StaleForTTL(code) ==
  /\ QueryFirst(code) # None
  /\ LET row == urls[QueryFirst(code)[1]] IN
       \/ ~row.is_active /\ now >= 0 + CACHE_TTL
       \/ row.expires_at # None /\ now >= row.expires_at[1] + CACHE_TTL

\* C17 as stated: a redirect of a code that arrives one cache TTL or more
\* after the row's deactivation or expiry finds no live cache entry for it
\* (and so is answered from the store, Gone).
C17_StalenessBoundedByTTL ==
  [][\A w \in Workers :
       (/\ pc[w] = "idle"
        /\ pc'[w] # "idle"
        /\ loc'[w].op = "redirect"
        /\ StaleForTTL(loc'[w].short_code[1]))
       => pc'[w] = "miss_query"]_vars

\* --------------------------------------------------------------- C18
\* C18 as stated: of two creations with one custom slug that both passed
\* the existence check, the one that reaches its insert when the other has
\* inserted the row adds no row and is answered 400 (Conflict), as a
\* creation that finds the slug taken is (a failure of the store itself set
\* aside).
C18_RaceLoserConflict ==
  [][\A w \in Workers :
       (/\ pc[w] = "s_insert"
        /\ pc'[w] = "idle"
        /\ loc[w].slug0 # None
        /\ \E i \in 1..Len(urls) : urls[i].short_code = loc[w].short_code[1]
        /\ last'.detail # "db_error")
       => /\ urls' = urls
          /\ last'.status = 400]_vars

\* --------------------------------------------------------------- C19
\* C19 as stated: a redirect that found a live cache entry returns the
\* redirect to the cached URL whatever the row's is_active and expires_at
\* say; when a row has the code, the step that answers adds exactly one
\* Click row for it and raises its clicks by one, and when no row has the
\* code it changes no row and no Click row (a redirect that a failed
\* commit ends in a server error set aside).
C19_HitPath ==
  [][\A code \in PathCodes, w \in Workers :
       (/\ RedirectEnds(w, code)
        /\ loc[w].cached_url # None
        /\ ~DependencyError(last'))
       => /\ last' = Seen(loc[w], RedirectResponse(loc[w].cached_url[1]))
          /\ IF QueryFirst(code) = None
               THEN urls' = urls /\ click_rows' = click_rows
               ELSE LET id == QueryFirst(code)[1] IN
                    /\ click_rows' = [click_rows EXCEPT ![id] = @ + 1]
                    /\ urls' = [urls EXCEPT ![id].clicks = @ + 1]]_vars

\* --------------------------------------------------------------- C20
\* C20: a redirect that missed the cache decides from the row its store
\* query finds, in this order: no row, 404; row inactive (whatever its
\* expiry), 410 deactivated; row active with expires_at set and strictly
\* before the current time, 410 expired; otherwise it goes on with the
\* row's destination, writes the cache entry (code, destination) and
\* returns the redirect to that destination (a redirect that an
\* unreachable cache or a failed commit ends in a server error set aside).
C20_MissPath ==
  [][\A code \in PathCodes, w \in Workers :
       /\ (/\ pc[w] = "miss_query"
           /\ pc'[w] # "miss_query"
           /\ loc[w].short_code = Some(code))
          => IF \A i \in 1..Len(urls) : urls[i].short_code # code
               THEN last' = Seen(loc[w], HTTPException(404, "not_found"))
               ELSE \E i \in 1..Len(urls) :
                 /\ urls[i].short_code = code
                 /\ IF ~urls[i].is_active
                      THEN last' = Seen(loc[w], HTTPException(410, "deactivated"))
                      ELSE IF /\ urls[i].expires_at # None
                              /\ urls[i].expires_at[1] < now
                        THEN last' = Seen(loc[w], HTTPException(410, "expired"))
                        ELSE /\ pc'[w] = "miss_cache"
                             /\ loc'[w].url_record # None
                             /\ loc'[w].url_record[1].original_url
                                  = urls[i].original_url
                             /\ last' = last
       /\ (/\ pc[w] = "miss_cache"
           /\ pc'[w] = "miss_commit"
           /\ loc[w].short_code = Some(code))
          => cache'[code] =
               Some([value |-> loc[w].url_record[1].original_url,
                     expire |-> now + CACHE_TTL])
       /\ (/\ pc[w] = "miss_commit"
           /\ pc'[w] = "idle"
           /\ loc[w].short_code = Some(code)
           /\ ~DependencyError(last'))
          => last' = Seen(loc[w],
                          RedirectResponse(loc[w].url_record[1].original_url))]_vars

\* A redirect missed the cache and found a row both deactivated and
\* expired: it was answered 410 deactivated.
C20_Witness ==
  /\ last.op = "redirect"
  /\ last.cached_url = None
  /\ last.status = 410
  /\ last.detail = "deactivated"
  /\ Inactive(last.short_code[1])
  /\ Expired(last.short_code[1])

\* --------------------------------------------------------------- C21
\* C21: in every reachable state a live cache entry for a code that has a
\* row holds that row's original_url, also while and after concurrent
\* redirects of the code that all missed the cache write it.
C21_CacheHoldsDestination ==
  \A code \in PathCodes :
    (Live(code) /\ QueryFirst(code) # None)
      => get_cached_url(code) = Some(urls[QueryFirst(code)[1]].original_url)

\* Two redirects of one code both missed the cache and both wrote it; the
\* live entry holds the row's destination.
C21_Witness ==
  /\ \A w \in Workers : pc[w] = "miss_commit" /\ loc[w].short_code = Some(s_ab1)
  /\ Live(s_ab1)
  /\ QueryFirst(s_ab1) # None
  /\ cache[s_ab1][1].value = urls[QueryFirst(s_ab1)[1]].original_url

\* --------------------------------------------------------------- C22
\* C22: a creation without a custom slug looks up at most 10 candidates.
\* A turn of its loop whose candidate no row has goes on to the insert with
\* that candidate; a turn whose candidate a row has tries again, and when
\* it was the 10th the creation is answered 500 and adds no row.  The
\* insert adds at most the one row with the candidate that the lookup
\* reported absent.
C22_BoundedAllocation ==
  /\ [](\A w \in Workers :
          pc[w] = "s_generate" => loc[w].attempts \in 0..9)
  /\ [][\A w \in Workers :
          /\ (pc[w] = "s_generate" /\ pc'[w] = "s_insert")
                => /\ loc'[w].short_code # None
                   /\ \A i \in 1..Len(urls) :
                        urls[i].short_code # loc'[w].short_code[1]
                   /\ urls' = urls
          /\ (pc[w] = "s_generate" /\ pc'[w] = "s_generate" /\ loc'[w] # loc[w])
                => /\ loc'[w].attempts = loc[w].attempts + 1
                   /\ urls' = urls
          /\ (pc[w] = "s_generate" /\ pc'[w] = "idle")
                => /\ loc[w].attempts = 9
                   /\ \E code \in GenCodes : QueryFirst(code) # None
                   /\ last'.status = 500
                   /\ last'.detail = "exhausted"
                   /\ urls' = urls
          /\ (pc[w] = "s_insert" /\ pc'[w] = "idle" /\ loc[w].slug0 = None)
                => \/ urls' = urls
                   \/ /\ urls' = Append(urls, urls'[Len(urls')])
                      /\ urls'[Len(urls')].short_code = loc[w].short_code[1]
                      /\ \A i \in 1..Len(urls) :
                           urls[i].short_code # loc[w].short_code[1]]_vars

\* A code the generator can draw is taken, and a creation without a custom
\* slug that drew taken codes 10 times was answered 500.
C22_Witness ==
  /\ last.op = "shorten"
  /\ last.slug0 = None
  /\ last.status = 500
  /\ last.detail = "exhausted"
  /\ \E code \in GenCodes : QueryFirst(code) # None

\* --------------------------------------------------------------- C23
\* Row i keeps its code, destination, custom flag, expiry and active flag
\* in the step.
C23_RowKept(i) ==
  /\ urls'[i].short_code = urls[i].short_code
  /\ urls'[i].original_url = urls[i].original_url
  /\ urls'[i].is_custom = urls[i].is_custom
  /\ urls'[i].expires_at = urls[i].expires_at
  /\ urls'[i].is_active = urls[i].is_active

\* C23: a step of a redirect, stats or creation request deletes no row and
\* no Click row and keeps every existing row's code, destination, custom
\* flag, expiry and active flag.  The arrival of a request changes no row,
\* no Click row and no cache entry.  A step of a redirect in flight adds no
\* row and touches only the row and the Click rows of its code, adding
\* Click rows.  A step of a creation in flight leaves the existing rows,
\* the Click rows and the cache as they are and adds at most one row, with
\* clicks 0, active, and without Click rows.
C23_RequestsFrame ==
  [][(nreq' # nreq \/ pc' # pc \/ loc' # loc)
       => /\ Len(urls') >= Len(urls)
          /\ Len(click_rows') = Len(urls')
          /\ \A i \in 1..Len(urls) :
               C23_RowKept(i) /\ click_rows'[i] >= click_rows[i]
          /\ (nreq' # nreq)
               => (urls' = urls /\ click_rows' = click_rows /\ cache' = cache)
          /\ \A w \in Workers :
               /\ (loc[w].op = "redirect" /\ (pc'[w] # pc[w] \/ loc'[w] # loc[w]))
                    => /\ Len(urls') = Len(urls)
                       /\ \A i \in 1..Len(urls) :
                            urls[i].short_code # loc[w].short_code[1]
                              => /\ urls'[i] = urls[i]
                                 /\ click_rows'[i] = click_rows[i]
               /\ (loc[w].op = "shorten" /\ (pc'[w] # pc[w] \/ loc'[w] # loc[w]))
                    => /\ cache' = cache
                       /\ \A i \in 1..Len(urls) :
                            urls'[i] = urls[i] /\ click_rows'[i] = click_rows[i]
                       /\ Len(urls') <= Len(urls) + 1
                       /\ Len(urls') = Len(urls) + 1
                            => /\ urls'[Len(urls')].clicks = 0
                               /\ urls'[Len(urls')].is_active
                               /\ click_rows'[Len(urls')] = 0]_vars

\* A creation added a second row while the first row, redirected once and
\* then deactivated, kept its fields and its Click row.
C23_Witness ==
  /\ last.op = "shorten"
  /\ last.status = 200
  /\ Len(urls) = 2
  /\ urls[1].clicks = 1
  /\ click_rows[1] = 1
  /\ ~urls[1].is_active
  /\ urls[2].clicks = 0
  /\ urls[2].is_active

\* --------------------------------------------------------------- C24
\* C24 as stated: a row that a creation stores has no expires_at or an
\* expires_at later than the time of the insert, whatever integer
\* expires_in_hours the request carried.
C24_NotExpiredAtCreation ==
  [][Len(urls') = Len(urls) + 1
       => \/ urls'[Len(urls')].expires_at = None
          \/ urls'[Len(urls')].expires_at[1] > now]_vars

\* --------------------------------------------------------------- C25
\* A worker w puts key k in this step: cache_url at main.py 222.
PutBy(w, k) ==
  /\ pc[w] = "miss_cache"
  /\ pc'[w] = "miss_commit"
  /\ loc[w].short_code = Some(k)

\* C25: a put of (k, v) replaces whatever entry k had, and from then on the
\* entry runs out CACHE_TTL after that put: right after it get(k) returns
\* v. A step that is not a put of k leaves what get(k) returns as it is
\* while the clock is before the entry's expiry, and makes it absent from
\* the expiry on; an absent key stays absent until it is put.
C25_PutRestartsTTL ==
  [][\A k \in Keys :
       IF \E w \in Workers : PutBy(w, k)
         THEN \A w \in Workers :
                PutBy(w, k) =>
                  /\ cache'[k] = Some([value |-> loc[w].url_record[1].original_url,
                                       expire |-> now + CACHE_TTL])
                  /\ get_cached_url(k)' =
                       Some(loc[w].url_record[1].original_url)
         ELSE IF cache[k] # None /\ now' < cache[k][1].expire
                THEN /\ get_cached_url(k) = Some(cache[k][1].value)
                     /\ get_cached_url(k)' = get_cached_url(k)
                ELSE get_cached_url(k)' = None]_vars

\* Both workers have put the same key and value, the second over the
\* first's live entry, and get returns that value with a full TTL ahead.
C25_Witness ==
  /\ \A w \in Workers :
       pc[w] = "miss_commit" /\ loc[w].short_code = Some(s_ab1)
  /\ now = 1
  /\ get_cached_url(s_ab1) = Some(UrlStr(u_example))
  /\ cache[s_ab1][1].expire = now + CACHE_TTL

====
